---- MODULE Spec2Model ----
(***************************************************************************)
(* NetworkDesigner: the planning core (VLSM address plan, VLAN grouping,   *)
(* per-VLAN topology, layer assignment, hierarchy graph, link addresses)   *)
(* and the GraphManager run that composes them.                            *)
(*                                                                         *)
(* Representation of Python values:                                        *)
(*   - a dotted-quad string "a.b.c.d" is the tuple <<a, b, c, d>>;         *)
(*   - an unbounded Python int that holds an address is the pair           *)
(*     <<hi, lo>> = hi * 2^16 + lo with 0 <= lo < 2^16 (hi may exceed      *)
(*     2^16 - 1: Python ints do not wrap);                                 *)
(*   - a device name f"{Kind}_{i}" is the tuple <<Kind, i>>;               *)
(*   - a call either returns a value or raises: Returned(v) / Raised(e).   *)
(***************************************************************************)
EXTENDS Integers, Sequences, FiniteSets, TLC

VARIABLES
    pc,     \* position of the call or run under way
    call,   \* the function invoked and its arguments
    ret,    \* what the call returned or raised
    self,   \* the GraphManager object's fields (graph_creation.py 35-56)
    frame   \* locals of GraphManager.create_optimized_topology

vars == <<pc, call, ret, self, frame>>

NoValue == [raised |-> "None", value |-> <<>>]
Returned(v) == [raised |-> "None", value |-> v]
Raised(e) == [raised |-> e, value |-> <<>>]

Range(s) == {s[i] : i \in DOMAIN s}

RECURSIVE SumSeq(_)
SumSeq(s) == IF s = <<>> THEN 0 ELSE Head(s) + SumSeq(Tail(s))

RemoveAt(s, i) == [j \in 1..(Len(s) - 1) |-> IF j < i THEN s[j] ELSE s[j + 1]]

\* Sequences over S of length 0..n.
SeqUpTo(S, n) == UNION {[1..k -> S] : k \in 0..n}

(***************************************************************************)
(* access_configuration.py                                                 *)
(***************************************************************************)
MIN_BITS_FOR_NETWORK_BROADCAST_AND_GATEWAY == 3
BYTE_MASK == 255
BITS_IN_BYTE == 8
MAX_BITS_IN_IP == 32

\* The two 16-bit halves of the <<hi, lo>> representation of a Python int.
Half == 2 ^ (BITS_IN_BYTE * 2)

IntAdd(n, k) == <<n[1] + ((n[2] + k) \div Half), (n[2] + k) % Half>>
IntLess(a, b) == a[1] < b[1] \/ (a[1] = b[1] /\ a[2] < b[2])
IntLeq(a, b) == a = b \/ IntLess(a, b)
\* b - a for two ints known to be less than 2^15 apart.
IntDiff(a, b) == (b[1] - a[1]) * Half + (b[2] - a[2])

\* math.ceil(math.log2(x)) for an int x >= 1.
CeilLog2(x) == CHOOSE k \in 0..30 : 2 ^ k >= x /\ (k = 0 \/ 2 ^ (k - 1) < x)
\* int(math.log2(size)).
FloorLog2(x) == CHOOSE k \in 0..30 : 2 ^ k <= x /\ 2 ^ (k + 1) > x

\* math.log2 raises ValueError ("math domain error") on an argument <= 0.
Log2DomainError(hosts) == hosts + MIN_BITS_FOR_NETWORK_BROADCAST_AND_GATEWAY <= 0

calculate_subnet_size_floor(hosts) ==
    2 ^ FloorLog2(hosts + MIN_BITS_FOR_NETWORK_BROADCAST_AND_GATEWAY)

calculate_subnet_size(hosts) ==
    2 ^ CeilLog2(hosts + MIN_BITS_FOR_NETWORK_BROADCAST_AND_GATEWAY)

ip_to_int(ip) ==
    <<ip[1] * (2 ^ BITS_IN_BYTE) + ip[2], ip[3] * (2 ^ BITS_IN_BYTE) + ip[4]>>

\* The second octet taken without "& BYTE_MASK".
int_to_ip_unmasked(ip_int) ==
    <<(ip_int[1] \div (2 ^ BITS_IN_BYTE)) % (BYTE_MASK + 1),
      ip_int[1],
      (ip_int[2] \div (2 ^ BITS_IN_BYTE)) % (BYTE_MASK + 1),
      ip_int[2] % (BYTE_MASK + 1)>>

int_to_ip(ip_int) ==
    <<(ip_int[1] \div (2 ^ BITS_IN_BYTE)) % (BYTE_MASK + 1),
      ip_int[1] % (BYTE_MASK + 1),
      (ip_int[2] \div (2 ^ BITS_IN_BYTE)) % (BYTE_MASK + 1),
      ip_int[2] % (BYTE_MASK + 1)>>

RECURSIVE sorted_ascending(_)
\* sorted(s): ascending order.
sorted_ascending(s) ==
    IF s = <<>> THEN <<>>
    ELSE LET i == CHOOSE i \in DOMAIN s :
                    /\ \A j \in DOMAIN s : s[i] <= s[j]
                    /\ \A j \in DOMAIN s : s[j] = s[i] => i <= j
         IN  <<s[i]>> \o sorted_ascending(RemoveAt(s, i))

\* sorted(subnet_sizes, reverse=True)
RECURSIVE sorted_reverse(_)
sorted_reverse(s) ==
    IF s = <<>> THEN <<>>
    ELSE LET i == CHOOSE i \in DOMAIN s : \A j \in DOMAIN s : s[j] <= s[i]
         IN  <<s[i]>> \o sorted_reverse(RemoveAt(s, i))

subnet_sizes_of(total_hosts) ==
    [i \in DOMAIN total_hosts |-> calculate_subnet_size(total_hosts[i])]

\* Step 3 of calculate_vlsm: the walk of the running cursor current_ip.
RECURSIVE vlsm_walk(_, _)
vlsm_walk(sizes, current_ip) ==
    IF sizes = <<>> THEN <<>>
    ELSE LET size == Head(sizes)
             bits_needed == FloorLog2(size)
             subnet_mask == MAX_BITS_IN_IP - bits_needed
             range_ip == int_to_ip(current_ip)
             first_ip == int_to_ip(IntAdd(current_ip, 1))
             last_ip == int_to_ip(IntAdd(current_ip,
                            size - MIN_BITS_FOR_NETWORK_BROADCAST_AND_GATEWAY))
         IN  <<[range |-> <<range_ip, subnet_mask>>,
                first_ip |-> first_ip,
                last_ip |-> last_ip,
                subnet_mask |-> subnet_mask,
                size |-> size]>>
             \o vlsm_walk(Tail(sizes), IntAdd(current_ip, size))

calculate_vlsm(ip_base, total_hosts) ==
    IF \E i \in DOMAIN total_hosts : Log2DomainError(total_hosts[i])
    THEN Raised("ValueError")
    ELSE Returned(vlsm_walk(sorted_reverse(subnet_sizes_of(total_hosts)),
                            ip_to_int(ip_base)))

(***************************************************************************)
(* Device names and their order as Python strings.                         *)
(***************************************************************************)
Name(kind, i) == <<kind, i>>

\* "Switch" in name: true of "Switch_i" and of "MultiLayerSwitch_i".
ContainsSwitch(name) == name[1] \in {"Switch", "MultiLayerSwitch"}
ContainsComputer(name) == name[1] = "Computer"

RECURSIVE Digits(_)
Digits(n) == IF n < 10 THEN <<n>> ELSE Digits(n \div 10) \o <<n % 10>>

RECURSIVE LexLess(_, _)
LexLess(a, b) ==
    IF a = <<>> THEN b # <<>>
    ELSE IF b = <<>> THEN FALSE
    ELSE IF Head(a) # Head(b) THEN Head(a) < Head(b)
    ELSE LexLess(Tail(a), Tail(b))

\* name_a < name_b for two names of the same kind: the decimal numerals are
\* compared as strings ("Switch_10" < "Switch_2").
NameLess(a, b) == LexLess(Digits(a[2]), Digits(b[2]))

(***************************************************************************)
(* networkx graphs: nodes in insertion order; an undirected edge is the    *)
(* set {u, v}, a directed edge the pair <<u, v>>; weight and attr hold the *)
(* edge attribute 'weight' and one node attribute.                         *)
(***************************************************************************)
EmptyGraph ==
    [directed |-> FALSE, nodes |-> <<>>, edges |-> {}, weight |-> <<>>, attr |-> <<>>]
EmptyDiGraph == [EmptyGraph EXCEPT !.directed = TRUE]

has_edge(G, u, v) == IF G.directed THEN <<u, v>> \in G.edges ELSE {u, v} \in G.edges

RECURSIVE AppendNew(_, _)
AppendNew(nodes, more) ==
    IF more = <<>> THEN nodes
    ELSE AppendNew(IF Head(more) \in Range(nodes) THEN nodes
                   ELSE Append(nodes, Head(more)), Tail(more))

add_nodes_from(G, names) == [G EXCEPT !.nodes = AppendNew(G.nodes, names)]

add_edge(G, u, v) ==
    [G EXCEPT !.nodes = AppendNew(G.nodes, <<u, v>>),
              !.edges = G.edges \cup {{u, v}}]

add_weighted_edge(G, u, v, w) ==
    [G EXCEPT !.nodes = AppendNew(G.nodes, <<u, v>>),
              !.edges = G.edges \cup {{u, v}},
              !.weight = ({u, v} :> w) @@ G.weight]

neighbors(G, v) == {n \in Range(G.nodes) : n # v /\ {n, v} \in G.edges}

\* nx.compose(G, H): the nodes and edges of both, H's attributes first.
compose(G, H) ==
    [directed |-> G.directed,
     nodes |-> AppendNew(G.nodes, H.nodes),
     edges |-> G.edges \cup H.edges,
     weight |-> H.weight @@ G.weight,
     attr |-> H.attr @@ G.attr]

\* G.subgraph(keep), iterated from the node `first`: the view's iteration
\* order is networkx's (the node set's or the graph's), and only its first
\* node is read.
subgraph(G, keep, first) ==
    LET kept == SelectSeq(G.nodes, LAMBDA n : n \in Range(keep))
        es == {e \in G.edges : e \subseteq Range(keep)}
    IN  [directed |-> G.directed,
         nodes |-> <<first>> \o SelectSeq(kept, LAMBDA n : n # first),
         edges |-> es,
         weight |-> [e \in es \cap DOMAIN G.weight |-> G.weight[e]],
         attr |-> <<>>]

\* The nodes list(G.subgraph(keep).nodes())[0] can be: networkx iterates the
\* set of kept nodes when it is less than half of the graph, the graph's
\* own node order otherwise.
first_of_subgraph(G, keep) ==
    IF 2 * Cardinality(Range(keep)) < Len(G.nodes)
    THEN Range(keep) \cap Range(G.nodes)
    ELSE {SelectSeq(G.nodes, LAMBDA n : n \in Range(keep))[1]}

(***************************************************************************)
(* access_layer.py                                                         *)
(***************************************************************************)
\* Heap entries are tuples (weight, u, v), ordered as Python orders tuples.
EntryLess(a, b) ==
    \/ a[1] < b[1]
    \/ a[1] = b[1] /\ a[2] # b[2] /\ NameLess(a[2], b[2])
    \/ a[1] = b[1] /\ a[2] = b[2] /\ a[3] # b[3] /\ NameLess(a[3], b[3])

heappop(priority_queue) ==
    CHOOSE e \in priority_queue :
        \A f \in priority_queue : f = e \/ EntryLess(e, f)

pushes_from(graph, u, visited) ==
    {<<graph.weight[{u, n}], u, n>> : n \in neighbors(graph, u) \ visited}

RECURSIVE prims_loop(_, _, _, _)
prims_loop(graph, visited, priority_queue, mst) ==
    IF priority_queue = {} THEN mst
    ELSE LET e == heappop(priority_queue)
             rest == priority_queue \ {e}
             v == e[3]
         IN  IF v \in visited
             THEN prims_loop(graph, visited, rest, mst)
             ELSE prims_loop(graph, visited \cup {v},
                             rest \cup pushes_from(graph, v, visited \cup {v}),
                             add_weighted_edge(mst, e[2], v, e[1]))

prims_minimum_spanning_tree(graph) ==
    IF graph.nodes = <<>> THEN EmptyGraph
    ELSE LET start_node == graph.nodes[1]
         IN  prims_loop(graph, {start_node},
                        pushes_from(graph, start_node, {start_node}),
                        EmptyGraph)

\* for i in range(len(switches)): for j in range(i + 1, len(switches))
mesh_edges(G, switches, weighted) ==
    LET n == Len(switches)
        pairs == {<<i, j>> \in (0..(n - 1)) \X (0..(n - 1)) : i < j}
        es == {{switches[p[1] + 1], switches[p[2] + 1]} : p \in pairs}
    IN  [G EXCEPT
           !.edges = G.edges \cup es,
           !.weight = IF weighted
                      THEN [e \in es |->
                              LET p == CHOOSE p \in pairs :
                                    e = {switches[p[1] + 1], switches[p[2] + 1]}
                              IN  p[1] + p[2]] @@ G.weight
                      ELSE G.weight]

RECURSIVE attach_primary_only(_, _, _, _)
\* Each computer joined to its primary switch and to no secondary switch.
attach_primary_only(G, switches, computers, i) ==
    IF i >= Len(computers) THEN G
    ELSE attach_primary_only(add_edge(G, computers[i + 1],
                                      switches[(i % Len(switches)) + 1]),
                             switches, computers, i + 1)

RECURSIVE attach_two(_, _, _, _)
attach_two(G, switches, computers, i) ==
    IF i >= Len(computers) THEN G
    ELSE LET computer == computers[i + 1]
             primary_switch == switches[(i % Len(switches)) + 1]
             secondary_switch == IF Len(switches) > 1
                                 THEN switches[((i + 1) % Len(switches)) + 1]
                                 ELSE switches[1]
             G1 == add_edge(G, computer, primary_switch)
             G2 == IF primary_switch # secondary_switch
                   THEN add_edge(G1, computer, secondary_switch) ELSE G1
         IN  attach_two(G2, switches, computers, i + 1)

create_fault_tolerant_network(switches, computers) ==
    LET G0 == add_nodes_from(add_nodes_from(EmptyGraph, switches), computers)
        G1 == mesh_edges(G0, switches, FALSE)
    IN  IF switches # <<>> THEN attach_two(G1, switches, computers, 0) ELSE G1

RECURSIVE attach_one(_, _, _, _)
attach_one(H, switches, computers, i) ==
    IF i >= Len(computers) THEN H
    ELSE attach_one(add_edge(H, computers[i + 1],
                             switches[(i % Len(switches)) + 1]),
                    switches, computers, i + 1)

\* `first` is the node the switch subgraph is iterated from.
create_scalable_network(switches, computers, first) ==
    LET G0 == add_nodes_from(add_nodes_from(EmptyGraph, switches), computers)
        G == mesh_edges(G0, switches, TRUE)
    IN  IF switches # <<>>
        THEN LET mst == prims_minimum_spanning_tree(subgraph(G, switches, first))
                 H == [EmptyGraph EXCEPT !.nodes = mst.nodes,
                                         !.edges = mst.edges,
                                         !.weight = mst.weight]
             IN  attach_one(H, switches, computers, 0)
        ELSE G

\* The literal 7 of the "/7 rule".
DevicesPerVlan == 7

\* len(devices) // 7
FloorDiv(n, d) == n \div d

\* math.ceil(len(devices) / 7)
CeilDiv(n, d) == (n + d - 1) \div d

device_names(kind, count) == [i \in 1..count |-> Name(kind, i)]

\* The round robin over the list 'all computers, then all switches'.
bin_packing_vlans_computers_first(switch_count, computer_count, vlan_count) ==
    LET devices == device_names("Computer", computer_count)
                   \o device_names("Switch", switch_count)
        num_vlans == IF vlan_count = -1
                     THEN CeilDiv(Len(devices), DevicesPerVlan)
                     ELSE vlan_count
        members(k) == {i \in 0..(Len(devices) - 1) : i % num_vlans = k}
    IN  IF devices # <<>> /\ num_vlans = 0 THEN Raised("ZeroDivisionError")
        ELSE IF devices # <<>> /\ num_vlans < 0 THEN Raised("IndexError")
        ELSE Returned([k \in 1..num_vlans |->
                [j \in 1..Cardinality(members(k - 1)) |->
                    devices[(j - 1) * num_vlans + (k - 1) + 1]]])

bin_packing_vlans(switch_count, computer_count, vlan_count) ==
    LET switches == device_names("Switch", switch_count)
        computers == device_names("Computer", computer_count)
        devices == switches \o computers
        num_vlans == IF vlan_count = -1
                     THEN CeilDiv(Len(devices), DevicesPerVlan)
                     ELSE vlan_count
        members(k) == {i \in 0..(Len(devices) - 1) : i % num_vlans = k}
    IN  IF devices # <<>> /\ num_vlans = 0 THEN Raised("ZeroDivisionError")
        ELSE IF devices # <<>> /\ num_vlans < 0 THEN Raised("IndexError")
        ELSE Returned([k \in 1..num_vlans |->
                [j \in 1..Cardinality(members(k - 1)) |->
                    devices[(j - 1) * num_vlans + (k - 1) + 1]]])

vlan_switches_of(vlan_devices) == SelectSeq(vlan_devices, ContainsSwitch)
vlan_computers_of(vlan_devices) == SelectSeq(vlan_devices, ContainsComputer)

NoNode == Name("None", 0)

\* The nodes the scalable network of one bucket may start Prim's walk from.
scalable_first_choices(vlan_devices) ==
    LET sw == vlan_switches_of(vlan_devices)
        co == vlan_computers_of(vlan_devices)
    IN  IF sw = <<>> THEN {NoNode}
        ELSE first_of_subgraph([nodes |-> sw \o co], sw)

\* One choice of first node per bucket.
first_choices(vlans) ==
    {f \in [DOMAIN vlans -> UNION {scalable_first_choices(vlans[k]) : k \in DOMAIN vlans}] :
        \A k \in DOMAIN vlans : f[k] \in scalable_first_choices(vlans[k])}

RECURSIVE compose_vlans(_, _, _, _, _)
\* The loop of create_optimal_vlan_network from bucket vlan_id (0-based) on;
\* acc is <<G, vlan_mapping>>.
compose_vlans(vlans, mode, firsts, vlan_id, acc) ==
    IF vlan_id >= Len(vlans) THEN acc
    ELSE LET vlan_devices == vlans[vlan_id + 1]
             vlan_switches == vlan_switches_of(vlan_devices)
             vlan_computers == vlan_computers_of(vlan_devices)
             vlan_graph ==
                IF mode = 0
                THEN create_fault_tolerant_network(vlan_switches, vlan_computers)
                ELSE create_scalable_network(vlan_switches, vlan_computers,
                                             firsts[vlan_id + 1])
             mapping == [n \in Range(vlan_graph.nodes) |-> vlan_id + 1]
         IN  compose_vlans(vlans, mode, firsts, vlan_id + 1,
                           <<compose(acc[1], vlan_graph), mapping @@ acc[2]>>)

create_optimal_vlan_network(switch_count, computer_count, mode, vlan_count, firsts) ==
    LET packed == bin_packing_vlans(switch_count, computer_count, vlan_count)
    IN  IF packed.raised # "None" THEN packed
        ELSE IF packed.value # <<>> /\ mode \notin {0, 1} THEN Raised("ValueError")
        ELSE LET done == compose_vlans(packed.value, mode, firsts, 0,
                                       <<EmptyGraph, <<>>>>)
                 G == [done[1] EXCEPT !.attr =
                          [n \in DOMAIN done[2] \cap Range(done[1].nodes) |-> done[2][n]]]
             IN  Returned(<<G, packed.value>>)

(***************************************************************************)
(* access_configuration.py: device configuration                           *)
(***************************************************************************)
DEVICE_TYPE_SWITCH == "Switch"
DEVICE_TYPE_COMPUTER == "Computer"

assign_ip_to_device(device_name, base_ip, offset) ==
    [name |-> device_name,
     type |-> IF ContainsSwitch(device_name) THEN DEVICE_TYPE_SWITCH
              ELSE DEVICE_TYPE_COMPUTER,
     ip_address |-> int_to_ip(IntAdd(ip_to_int(base_ip), offset))]

\* The configurations of one VLAN's devices (the inner loop of
\* configure_devices).
vlan_device_configs(vlan_id, vlan_devices, subnet) ==
    [i \in DOMAIN vlan_devices |->
        LET c == assign_ip_to_device(vlan_devices[i], subnet.first_ip, (i - 1) + 1)
        IN  [name |-> c.name, type |-> c.type, ip_address |-> c.ip_address,
             subnet_mask |-> subnet.subnet_mask,
             vlan_id |-> vlan_id,
             gateway |-> subnet.first_ip]]

RECURSIVE configure_loop(_, _, _, _)
\* acc is <<device_configurations, main_switches>>.
configure_loop(vlans, vlsm_subnets, vlan_id, acc) ==
    IF vlan_id > Len(vlans) \/ vlan_id > Len(vlsm_subnets) THEN acc
    ELSE LET vlan_devices == vlans[vlan_id]
             configs == vlan_device_configs(vlan_id, vlan_devices,
                                            vlsm_subnets[vlan_id])
             mains == IF vlan_devices # <<>> THEN <<vlan_devices[1]>> ELSE <<>>
         IN  configure_loop(vlans, vlsm_subnets, vlan_id + 1,
                            <<acc[1] \o configs, acc[2] \o mains>>)

configure_devices(vlans, ip_base) ==
    LET total_hosts == [k \in DOMAIN vlans |-> Len(vlans[k])]
        vlsm_subnets == calculate_vlsm(ip_base, total_hosts)
    IN  IF vlsm_subnets.raised # "None" THEN vlsm_subnets
        ELSE Returned(configure_loop(vlans, vlsm_subnets.value, 1, <<<<>>, <<>>>>))

(***************************************************************************)
(* top_layers.py                                                           *)
(***************************************************************************)
create_core_layer(core_devices, dist_devices) ==
    {<<core_devices[i], dist_devices[j]>> :
        i \in DOMAIN core_devices, j \in DOMAIN dist_devices}

\* The Distribution-to-Access edges alone, with no mesh among the
\* Distribution devices.
create_distribution_layer_unmeshed(dist_devices, access_switches) ==
    {<<dist_devices[i], access_switches[j]>> :
        i \in DOMAIN dist_devices, j \in DOMAIN access_switches}

create_distribution_layer(dist_devices, access_switches) ==
    {<<dist_devices[i], access_switches[j]>> :
        i \in DOMAIN dist_devices, j \in DOMAIN access_switches}
    \cup {<<dist_devices[p[1]], dist_devices[p[2]]>> :
            p \in {q \in (DOMAIN dist_devices) \X (DOMAIN dist_devices) : q[1] < q[2]}}

\* G.add_nodes_from(.., layer=..) three times: a later call overwrites the
\* layer of a node an earlier call added.
tagged_nodes(core_devices, dist_devices, access_switches) ==
    LET nodes == AppendNew(AppendNew(AppendNew(<<>>, core_devices), dist_devices),
                           access_switches)
    IN  [n \in Range(nodes) |->
            IF n \in Range(access_switches) THEN "Access"
            ELSE IF n \in Range(dist_devices) THEN "Distribution"
            ELSE "Core"]

\* The layers as add_nodes_from tagged them, with no retagging.
collapse_layers_kept(layer, dist_devices) == layer

\* for dist_device in dist_devices: G.nodes[dist_device]['layer'] = 'Core'
collapse_layers(layer, dist_devices) ==
    [n \in DOMAIN layer |-> IF n \in Range(dist_devices) THEN "Core" ELSE layer[n]]

build_topology(core_devices, dist_devices, access_switches) ==
    LET layer == tagged_nodes(core_devices, dist_devices, access_switches)
        nodes == AppendNew(AppendNew(AppendNew(<<>>, core_devices), dist_devices),
                           access_switches)
    IN  [directed |-> TRUE,
         nodes |-> nodes,
         edges |-> (IF core_devices # <<>>
                    THEN create_core_layer(core_devices, dist_devices) ELSE {})
                   \cup create_distribution_layer(dist_devices, access_switches),
         weight |-> <<>>,
         attr |-> IF core_devices # <<>> THEN layer
                  ELSE collapse_layers(layer, dist_devices)]

(***************************************************************************)
(* The ipaddress module: an IPv4Network is its network address (an int)    *)
(* and its prefix length.                                                  *)
(***************************************************************************)
NetSize(prefixlen) == 2 ^ (MAX_BITS_IN_IP - prefixlen)

\* address & netmask
AlignDown(n, prefixlen) ==
    LET bits == MAX_BITS_IN_IP - prefixlen
    IN  IF bits <= BITS_IN_BYTE * 2
        THEN <<n[1], n[2] - (n[2] % (2 ^ bits))>>
        ELSE <<n[1] - (n[1] % (2 ^ (bits - BITS_IN_BYTE * 2))), 0>>

\* ipaddress.ip_network(f"{address}/{prefixlen}", strict=False)
ip_network(address, prefixlen) ==
    [network_address |-> AlignDown(ip_to_int(address), prefixlen),
     prefixlen |-> prefixlen]

\* list(net.hosts())[i]: the usable addresses leave out the network and the
\* broadcast address of a block of four or more.
first_host(net) ==
    IF net.prefixlen >= MAX_BITS_IN_IP - 1 THEN net.network_address
    ELSE IntAdd(net.network_address, 1)
host_at(net, i) == IntAdd(first_host(net), i)
last_host(net) ==
    IF net.prefixlen = MAX_BITS_IN_IP THEN net.network_address
    ELSE IF net.prefixlen = MAX_BITS_IN_IP - 1 THEN IntAdd(net.network_address, 1)
    ELSE IntAdd(net.network_address, NetSize(net.prefixlen) - 2)

\* str(net.netmask)
netmask(net) == int_to_ip(IntAdd(<<Half, 0>>, 0 - NetSize(net.prefixlen)))

(***************************************************************************)
(* top_layers_configuration.py                                             *)
(***************************************************************************)
\* The order of Python strings on device names of any kind.
KindRank(kind) ==
    CASE kind = "Computer" -> 1
      [] kind = "MultiLayerSwitch" -> 2
      [] kind = "Router" -> 3
      [] kind = "Switch" -> 4
      [] OTHER -> 0
StrLess(a, b) ==
    IF a[1] # b[1] THEN KindRank(a[1]) < KindRank(b[1]) ELSE a # b /\ NameLess(a, b)

NoIp == <<>>
Line(cmd, vlan, peer, ip, mask, via) ==
    [cmd |-> cmd, vlan |-> vlan, peer |-> peer, ip |-> ip, mask |-> mask, via |-> via]
NoShutdown == Line("no shutdown", 0, NoNode, NoIp, NoIp, NoIp)
Bang == Line("!", 0, NoNode, NoIp, NoIp, NoIp)
IpRouting == Line("ip routing", 0, NoNode, NoIp, NoIp, NoIp)

\* vlans_info after the first loop: one entry per VLAN ID in first-seen
\* order, holding the last configuration seen for that id.
vlans_info_of(main_access_configs) ==
    LET ids == AppendNew(<<>>, [i \in DOMAIN main_access_configs |->
                                    main_access_configs[i].VLAN_ID])
    IN  [k \in DOMAIN ids |->
            LET last == CHOOSE i \in DOMAIN main_access_configs :
                            /\ main_access_configs[i].VLAN_ID = ids[k]
                            /\ \A j \in DOMAIN main_access_configs :
                                 main_access_configs[j].VLAN_ID = ids[k] => j <= i
                conf == main_access_configs[last]
            IN  [vlan_id |-> ids[k],
                 gateway |-> conf.Gateway,
                 subnet |-> ip_network(conf.Gateway, conf.Subnet_Mask)]]

RECURSIVE highest_subnet_of(_, _, _)
\* The fold of lines 65-70 from configuration i on; `highest` is <<>> for None.
highest_subnet_of(main_access_configs, i, highest) ==
    IF i > Len(main_access_configs) THEN highest
    ELSE LET conf == main_access_configs[i]
             net == ip_network(conf.Gateway, conf.Subnet_Mask)
         IN  highest_subnet_of(main_access_configs, i + 1,
                IF highest = <<>> THEN <<net>>
                ELSE IF IntLess(last_host(highest[1]), last_host(net)) THEN <<net>>
                ELSE highest)

\* The k-th value of subnet_generator(start_net), k >= 1.
nth_subnet(start_net, k) ==
    [network_address |-> IntAdd(start_net.network_address, k * NetSize(start_net.prefixlen)),
     prefixlen |-> start_net.prefixlen]

layer_devices(G, layer) == SelectSeq(G.nodes, LAMBDA n : G.attr[n] = layer)

\* The (dist_dev, core_dev) pairs of lines 178-180, in loop order.
link_pairs(G) ==
    LET dist_devices == layer_devices(G, "Distribution")
        core_devices == layer_devices(G, "Core")
        all == [k \in 1..(Len(dist_devices) * Len(core_devices)) |->
                  <<dist_devices[((k - 1) \div Len(core_devices)) + 1],
                    core_devices[((k - 1) % Len(core_devices)) + 1]>>]
    IN  SelectSeq(all, LAMBDA p : has_edge(G, p[1], p[2]))

svi_lines(vlans_info) ==
    LET one(v) == <<Line("interface vlan", v.vlan_id, NoNode, NoIp, NoIp, NoIp),
                    Line("ip address", 0, NoNode, v.gateway, netmask(v.subnet), NoIp),
                    NoShutdown, Bang>>
        RECURSIVE all(_)
        all(k) == IF k > Len(vlans_info) THEN <<>> ELSE one(vlans_info[k]) \o all(k + 1)
    IN  all(1)

\* The interface lines of device dev: its links in allocation order.
interface_lines(dev, pairs, nets, side) ==
    LET RECURSIVE all(_)
        all(k) ==
            IF k > Len(pairs) THEN <<>>
            ELSE (IF pairs[k][side] = dev
                  THEN <<Line("interface", 0, pairs[k][3 - side], NoIp, NoIp, NoIp),
                         Line("ip address", 0, NoNode,
                              int_to_ip(host_at(nets[k], side - 1)),
                              netmask(nets[k]), NoIp),
                         NoShutdown, Bang>>
                  ELSE <<>>) \o all(k + 1)
    IN  all(1)

route_lines(core_dev, dist_devices, vlans_info, pairs, nets) ==
    LET RECURSIVE all(_)
        all(k) ==
            IF k > Len(vlans_info) THEN <<>>
            ELSE (IF dist_devices # <<>>
                     /\ \E j \in DOMAIN pairs : pairs[j] = <<dist_devices[1], core_dev>>
                  THEN LET j == CHOOSE j \in DOMAIN pairs :
                                    pairs[j] = <<dist_devices[1], core_dev>>
                           net == vlans_info[k].subnet
                       IN  <<Line("ip route", 0, NoNode,
                                  int_to_ip(net.network_address), netmask(net),
                                  int_to_ip(host_at(nets[j], 0)))>>
                  ELSE <<>>) \o all(k + 1)
    IN  all(1)

configure_top_layers(G, main_access_configs) ==
    LET vlans_info == vlans_info_of(main_access_configs)
        highest_subnet == highest_subnet_of(main_access_configs, 1, <<>>)
        dist_devices == layer_devices(G, "Distribution")
        core_devices == layer_devices(G, "Core")
        pairs == link_pairs(G)
        nets == [k \in DOMAIN pairs |-> nth_subnet(highest_subnet[1], k)]
        dist_cfg(d) == [device_name |-> d,
                        config_lines |-> svi_lines(vlans_info) \o <<IpRouting, Bang>>
                                         \o interface_lines(d, pairs, nets, 1)]
        core_cfg(c) == [device_name |-> c,
                        config_lines |-> <<IpRouting, Bang>>
                                         \o interface_lines(c, pairs, nets, 2)
                                         \o route_lines(c, dist_devices, vlans_info,
                                                        pairs, nets)]
    IN  \* next(gen) on subnet_generator(None)
        IF pairs # <<>> /\ highest_subnet = <<>> THEN Raised("AttributeError")
        \* ipaddress.ip_address(next_network_int) past 255.255.255.255
        ELSE IF \E k \in DOMAIN pairs : IntLeq(<<Half, 0>>, nets[k].network_address)
        THEN Raised("ValueError")
        \* dist_interface_cfg[core_dev] for a reversed key the string test keeps
        ELSE IF \E k \in DOMAIN pairs : ~StrLess(pairs[k][1], pairs[k][2])
        THEN Raised("KeyError")
        ELSE Returned([i \in DOMAIN dist_devices |-> dist_cfg(dist_devices[i])]
                      \o [i \in DOMAIN core_devices |-> core_cfg(core_devices[i])])

(***************************************************************************)
(* graph_creation.py                                                       *)
(***************************************************************************)
MINIMUM_ROUTING == 4

Device(name, device_type, routing) ==
    [name |-> name, device_type |-> device_type, routing |-> routing]

devices_of(kind, count, routing) ==
    [i \in 1..count |-> Device(Name(kind, i), kind, routing)]

names_of(devices) == [i \in DOMAIN devices |-> devices[i].name]

\* sorted(.., key=lambda d: d.device_type == "Router"): the ascending
\* order, routers after the other devices.
routers_last(devices) ==
    SelectSeq(devices, LAMBDA d : d.device_type # "Router")
    \o SelectSeq(devices, LAMBDA d : d.device_type = "Router")

\* sorted(.., key=lambda d: d.device_type == "Router", reverse=True): the
\* sort is stable, so each class keeps its order.
routers_first(devices) ==
    SelectSeq(devices, LAMBDA d : d.device_type = "Router")
    \o SelectSeq(devices, LAMBDA d : d.device_type # "Router")

Min(a, b) == IF a < b THEN a ELSE b

assign_devices_to_layers(routers, mls, switches, computers) ==
    LET routing_devices == routers_first(routers \o mls)
        core_devices == Min(Len(routing_devices), 2)
    IN  IF Len(routing_devices) < MINIMUM_ROUTING
        THEN [Core |-> <<>>,
              Distribution |-> routing_devices,
              Access |-> switches \o computers]
        ELSE [Core |-> SubSeq(routing_devices, 1, core_devices),
              Distribution |-> SubSeq(routing_devices, core_devices + 1,
                                      Len(routing_devices)),
              Access |-> switches \o computers]

\* GraphManager.__init__, lines 35-56: the fields and the layers.
new_graph_manager(args) ==
    LET routers == devices_of("Router", args.num_routers, TRUE)
        mls == devices_of("MultiLayerSwitch", args.num_mls, TRUE)
        switches == devices_of("Switch", args.num_switches, FALSE)
        computers == devices_of("Computer", args.num_computers, FALSE)
    IN  [num_routers |-> args.num_routers, num_mls |-> args.num_mls,
         num_switches |-> args.num_switches, num_computers |-> args.num_computers,
         ip_base |-> args.ip_base, mode |-> args.mode, vlan_count |-> args.vlan_count,
         routers |-> routers, mls |-> mls, switches |-> switches,
         computers |-> computers,
         layers |-> assign_devices_to_layers(routers, mls, switches, computers)]

\* The access layer's names with no filter on the kind.
access_switch_names_all(layers) == names_of(layers.Access)

\* create_optimized_topology, lines 110-112.
access_switch_names(layers) == SelectSeq(names_of(layers.Access), ContainsSwitch)
access_computer_names(layers) == SelectSeq(names_of(layers.Access), ContainsComputer)

\* The main access switch configurations in the format configure_top_layers
\* documents: the configurations of the main access switches, keyed
\* "VLAN ID", "Gateway", "Subnet Mask".
main_access_configs_of(device_configurations, main_access_switches) ==
    LET picked == SelectSeq(device_configurations,
                            LAMBDA c : c.name \in Range(main_access_switches))
    IN  [i \in DOMAIN picked |->
            [Name |-> picked[i].name, Type |-> picked[i].type,
             IP_Address |-> picked[i].ip_address,
             Subnet_Mask |-> picked[i].subnet_mask,
             VLAN_ID |-> picked[i].vlan_id,
             Gateway |-> picked[i].gateway]]

\* The hierarchy graph as an undirected nx.Graph.
to_undirected(G) ==
    [G EXCEPT !.directed = FALSE, !.edges = {{e[1], e[2]} : e \in G.edges}]

(***************************************************************************)
(* Calls of access_configuration.py on bounded inputs.                     *)
(***************************************************************************)
MaxHosts == 14
MaxListHosts == 5
MaxVlans == 3
MaxConfSwitches == 3
MaxConfComputers == 4
MaxConfVlans == 3

\* The least host count is the first one math.log2 rejects.
MinHosts == 0 - MIN_BITS_FOR_NETWORK_BROADCAST_AND_GATEWAY

\* Base addresses: aligned, not aligned to a block, and at the top of the
\* 32-bit space.
IpBases == {<<192, 168, 0, 0>>, <<10, 0, 0, 5>>, <<255, 255, 255, 248>>}

SubnetSizeCalls ==
    {[fn |-> "calculate_subnet_size", hosts |-> h] : h \in MinHosts..MaxHosts}

VlsmCalls ==
    {[fn |-> "calculate_vlsm", ip_base |-> b, total_hosts |-> t] :
        b \in IpBases, t \in SeqUpTo(MinHosts..MaxListHosts, MaxVlans)}

\* configure_devices on the buckets bin_packing_vlans makes, as
\* create_optimized_topology passes them.
ConfigureDevicesCalls ==
    {[fn |-> "configure_devices",
      vlans |-> bin_packing_vlans(sc, cc, vc).value, ip_base |-> b] :
        sc \in 0..MaxConfSwitches, cc \in 0..MaxConfComputers,
        vc \in 1..MaxConfVlans, b \in IpBases}

InitAccessConfiguration ==
    /\ pc = "call"
    /\ call \in SubnetSizeCalls \cup VlsmCalls \cup ConfigureDevicesCalls
    /\ ret = NoValue
    /\ self = NoValue
    /\ frame = NoValue

CallCalculateSubnetSize ==
    /\ pc = "call"
    /\ call.fn = "calculate_subnet_size"
    /\ ret' = IF Log2DomainError(call.hosts) THEN Raised("ValueError")
              ELSE Returned(calculate_subnet_size(call.hosts))
    /\ pc' = "done"
    /\ UNCHANGED <<call, self, frame>>

CallCalculateVlsm ==
    /\ pc = "call"
    /\ call.fn = "calculate_vlsm"
    /\ ret' = calculate_vlsm(call.ip_base, call.total_hosts)
    /\ pc' = "done"
    /\ UNCHANGED <<call, self, frame>>

CallConfigureDevices ==
    /\ pc = "call"
    /\ call.fn = "configure_devices"
    /\ ret' = configure_devices(call.vlans, call.ip_base)
    /\ pc' = "done"
    /\ UNCHANGED <<call, self, frame>>

NextAccessConfiguration ==
    \/ CallCalculateSubnetSize
    \/ CallCalculateVlsm
    \/ CallConfigureDevices

SpecAccessConfiguration ==
    InitAccessConfiguration /\ [][NextAccessConfiguration]_vars

(***************************************************************************)
(* Calls of access_layer.py on bounded inputs.                             *)
(***************************************************************************)
MaxSwitchCount == 8
MaxComputerCount == 11
MaxVlanCount == 4
MaxNodes == 3
MaxWeight == 2
MaxNetSwitches == 4
MaxNetComputers == 5
MaxNetVlans == 3

BinPackingCalls ==
    {[fn |-> "bin_packing_vlans", switch_count |-> sc, computer_count |-> cc,
      vlan_count |-> vc] :
        sc \in 0..MaxSwitchCount, cc \in 0..MaxComputerCount,
        vc \in (0 - 1)..MaxVlanCount}

NodePairs(n) == {e \in SUBSET (1..n) : Cardinality(e) = 2}

\* The weighted graph on Switch_1..Switch_n whose edge {i, j} has weight
\* w[{i, j}] (no edge where the weight is 0), iterated from node `first`.
WeightedGraph(n, first, w) ==
    LET es == {e \in NodePairs(n) : w[e] > 0}
        named(e) == {Name("Switch", i) : i \in e}
    IN  [directed |-> FALSE,
         nodes |-> <<Name("Switch", first)>>
                   \o SelectSeq(device_names("Switch", n),
                                LAMBDA x : x # Name("Switch", first)),
         edges |-> {named(e) : e \in es},
         weight |-> [x \in {named(e) : e \in es} |->
                        w[CHOOSE e \in es : named(e) = x]],
         attr |-> <<>>]

\* The complete graph on A, B, C, D (Switch_1..Switch_4) with weights
\* AB=1, AC=4, AD=3, BC=2, BD=5, CD=6.
ExampleWeights ==
    ({1, 2} :> 1) @@ ({1, 3} :> 4) @@ ({1, 4} :> 3)
    @@ ({2, 3} :> 2) @@ ({2, 4} :> 5) @@ ({3, 4} :> 6)

\* The empty graph, the example iterated from each of its nodes, and every
\* weighted graph on up to MaxNodes nodes iterated from each of its nodes.
PrimGraphs ==
    {EmptyGraph}
    \cup {WeightedGraph(4, first, ExampleWeights) : first \in 1..4}
    \cup {WeightedGraph(nf[1], nf[2], w) :
            nf \in {x \in (1..MaxNodes) \X (1..MaxNodes) : x[2] <= x[1]},
            w \in [NodePairs(MaxNodes) -> 0..MaxWeight]}

PrimCalls == {[fn |-> "prims_minimum_spanning_tree", graph |-> g] : g \in PrimGraphs}

\* The two network builders on Switch_1..Switch_n and Computer_1..Computer_m.
NetworkCalls ==
    {[fn |-> f, switches |-> device_names("Switch", n),
      computers |-> device_names("Computer", m)] :
        f \in {"create_fault_tolerant_network", "create_scalable_network"},
        n \in 0..MaxNetSwitches, m \in 0..MaxNetComputers}

\* Modes 0 and 1 and the mode 2 the function rejects.
OptimalVlanCalls ==
    {[fn |-> "create_optimal_vlan_network", switch_count |-> sc,
      computer_count |-> cc, mode |-> mode, vlan_count |-> vc] :
        sc \in 0..MaxNetSwitches, cc \in 0..MaxNetComputers,
        mode \in 0..2, vc \in (0 - 1)..MaxNetVlans}

InitAccessLayer ==
    /\ pc = "call"
    /\ call \in BinPackingCalls \cup PrimCalls \cup NetworkCalls \cup OptimalVlanCalls
    /\ ret = NoValue
    /\ self = NoValue
    /\ frame = NoValue

CallBinPackingVlans ==
    /\ pc = "call"
    /\ call.fn = "bin_packing_vlans"
    /\ ret' = bin_packing_vlans(call.switch_count, call.computer_count,
                                call.vlan_count)
    /\ pc' = "done"
    /\ UNCHANGED <<call, self, frame>>

CallPrims ==
    /\ pc = "call"
    /\ call.fn = "prims_minimum_spanning_tree"
    /\ ret' = Returned(prims_minimum_spanning_tree(call.graph))
    /\ pc' = "done"
    /\ UNCHANGED <<call, self, frame>>

CallCreateFaultTolerantNetwork ==
    /\ pc = "call"
    /\ call.fn = "create_fault_tolerant_network"
    /\ ret' = Returned(create_fault_tolerant_network(call.switches, call.computers))
    /\ pc' = "done"
    /\ UNCHANGED <<call, self, frame>>

\* The switch subgraph is iterated from any node networkx may put first.
CallCreateScalableNetwork ==
    /\ pc = "call"
    /\ call.fn = "create_scalable_network"
    /\ \E first \in scalable_first_choices(call.switches \o call.computers) :
         ret' = Returned(create_scalable_network(call.switches, call.computers, first))
    /\ pc' = "done"
    /\ UNCHANGED <<call, self, frame>>

CallCreateOptimalVlanNetwork ==
    /\ pc = "call"
    /\ call.fn = "create_optimal_vlan_network"
    /\ LET packed == bin_packing_vlans(call.switch_count, call.computer_count,
                                      call.vlan_count)
       IN  \E firsts \in first_choices(IF packed.raised = "None" /\ call.mode = 1
                                       THEN packed.value ELSE <<>>) :
             ret' = create_optimal_vlan_network(call.switch_count, call.computer_count,
                                                call.mode, call.vlan_count, firsts)
    /\ pc' = "done"
    /\ UNCHANGED <<call, self, frame>>

NextAccessLayer ==
    \/ CallBinPackingVlans
    \/ CallPrims
    \/ CallCreateFaultTolerantNetwork
    \/ CallCreateScalableNetwork
    \/ CallCreateOptimalVlanNetwork

SpecAccessLayer == InitAccessLayer /\ [][NextAccessLayer]_vars

(***************************************************************************)
(* Calls of assign_devices_to_layers and build_topology on bounded inputs. *)
(***************************************************************************)
MaxPool == 4
MaxAccess == 2

AssignCalls ==
    {[fn |-> "assign_devices_to_layers", num_routers |-> r, num_mls |-> m,
      num_switches |-> sc, num_computers |-> cc] :
        r \in 0..MaxPool, m \in 0..MaxPool,
        sc \in 0..MaxAccess, cc \in 0..MaxAccess}

layers_for(r, m, sc, cc) ==
    assign_devices_to_layers(devices_of("Router", r, TRUE),
                             devices_of("MultiLayerSwitch", m, TRUE),
                             devices_of("Switch", sc, FALSE),
                             devices_of("Computer", cc, FALSE))

\* The main access switches configure_devices names for sc switches and cc
\* computers in vc VLANs.
main_switches_for(sc, cc, vc) ==
    configure_devices(bin_packing_vlans(sc, cc, vc).value, <<192, 168, 0, 0>>).value[2]

\* build_topology(core_devices, dist_devices, access_switches) on the layers
\* of r routers and m multilayer switches, the two routing layers passed in
\* the order of the parameters or in the order of graph_creation.py 121-125.
BuildTopologyCalls ==
    {[fn |-> "build_topology",
      core_devices |-> names_of(IF swapped THEN layers_for(r, m, 0, 0).Distribution
                                ELSE layers_for(r, m, 0, 0).Core),
      dist_devices |-> names_of(IF swapped THEN layers_for(r, m, 0, 0).Core
                                ELSE layers_for(r, m, 0, 0).Distribution),
      access_switches |-> main_switches_for(sc, cc, vc)] :
        r \in 0..MaxPool, m \in 0..MaxPool, swapped \in BOOLEAN,
        sc \in 0..MaxAccess, cc \in 0..MaxAccess, vc \in 1..MaxAccess}

\* Lines 121-125 of create_optimized_topology on the layers of r routers
\* and m multilayer switches and the main access switches of the run.
TopGraphCalls ==
    {[fn |-> "top_graph", layers |-> layers_for(r, m, sc, cc),
      main_access_switches |-> main_switches_for(sc, cc, vc)] :
        r \in 0..MaxPool, m \in 0..MaxPool,
        sc \in 0..MaxAccess, cc \in 0..MaxAccess, vc \in 1..MaxAccess}

InitLayers ==
    /\ pc = "call"
    /\ call \in AssignCalls \cup BuildTopologyCalls \cup TopGraphCalls
    /\ ret = NoValue
    /\ self = NoValue
    /\ frame = NoValue

CallAssignDevicesToLayers ==
    /\ pc = "call"
    /\ call.fn = "assign_devices_to_layers"
    /\ ret' = Returned(layers_for(call.num_routers, call.num_mls,
                                  call.num_switches, call.num_computers))
    /\ pc' = "done"
    /\ UNCHANGED <<call, self, frame>>

CallBuildTopology ==
    /\ pc = "call"
    /\ call.fn = "build_topology"
    /\ ret' = Returned(build_topology(call.core_devices, call.dist_devices,
                                      call.access_switches))
    /\ pc' = "done"
    /\ UNCHANGED <<call, self, frame>>

\* top_graph = build_topology(names of Distribution, names of Core,
\* main_access_switches): the Distribution names go to the parameter
\* core_devices and the Core names to dist_devices.
BuildTopGraph ==
    /\ pc = "call"
    /\ call.fn = "top_graph"
    /\ ret' = Returned(build_topology(names_of(call.layers.Distribution),
                                      names_of(call.layers.Core),
                                      call.main_access_switches))
    /\ pc' = "done"
    /\ UNCHANGED <<call, self, frame>>

NextLayers ==
    \/ CallAssignDevicesToLayers
    \/ CallBuildTopology
    \/ BuildTopGraph

SpecLayers == InitLayers /\ [][NextLayers]_vars

(***************************************************************************)
(* Calls of configure_top_layers on the hierarchy graph and the main       *)
(* access switch configurations of one plan.                               *)
(***************************************************************************)
MaxLinkPool == 3
MaxLinkAccess == 2
MaxLinkVlans == 3

\* The call for r routers, m multilayer switches, sc switches, cc computers
\* in vc VLANs under base address b; the hierarchy graph is the DiGraph
\* build_topology returns or the same graph undirected.
top_layers_call(r, m, sc, cc, vc, b, directed) ==
    LET vlans == bin_packing_vlans(sc, cc, vc).value
        configured == configure_devices(vlans, b).value
        layers == layers_for(r, m, sc, cc)
        built == build_topology(names_of(layers.Core), names_of(layers.Distribution),
                                configured[2])
    IN  [fn |-> "configure_top_layers",
         G |-> IF directed THEN built ELSE to_undirected(built),
         main_access_configs |-> main_access_configs_of(configured[1], configured[2]),
         vlans |-> vlans,
         ip_base |-> b]

ConfigureTopLayersCalls ==
    {top_layers_call(r, m, sc, cc, vc, b, directed) :
        r \in 0..MaxLinkPool, m \in 0..MaxLinkPool,
        sc \in 0..MaxLinkAccess, cc \in 0..MaxLinkAccess, vc \in 1..MaxLinkVlans,
        b \in IpBases, directed \in BOOLEAN}

InitTopLayersConfiguration ==
    /\ pc = "call"
    /\ call \in ConfigureTopLayersCalls
    /\ ret = NoValue
    /\ self = NoValue
    /\ frame = NoValue

CallConfigureTopLayers ==
    /\ pc = "call"
    /\ call.fn = "configure_top_layers"
    /\ ret' = configure_top_layers(call.G, call.main_access_configs)
    /\ pc' = "done"
    /\ UNCHANGED <<call, self, frame>>

NextTopLayersConfiguration == CallConfigureTopLayers

SpecTopLayersConfiguration ==
    InitTopLayersConfiguration /\ [][NextTopLayersConfiguration]_vars

(***************************************************************************)
(* A planning run: GraphManager(num_routers, num_mls, num_switches,        *)
(* num_computers, mode, ip_base, vlan_count).                              *)
(***************************************************************************)
MaxRouters == 2
MaxMls == 2
MaxSwitches == 3
MaxComputers == 3
MaxRunVlans == 2

RunBases == {<<192, 168, 0, 0>>, <<10, 0, 0, 5>>}

GraphManagerCall(r, m, sc, cc, mode, b, vc) ==
    [fn |-> "GraphManager", num_routers |-> r, num_mls |-> m, num_switches |-> sc,
     num_computers |-> cc, mode |-> mode, ip_base |-> b, vlan_count |-> vc]

\* The arguments of GraphManager(...), as in the example of
\* graph_creation.py 168-176 with smaller counts.
GraphManagerCalls ==
    {GraphManagerCall(r, m, sc, cc, mode, b, vc) :
        r \in 0..MaxRouters, m \in 0..MaxMls,
        sc \in 0..MaxSwitches, cc \in 0..MaxComputers,
        mode \in 0..2, b \in RunBases, vc \in (0 - 1)..MaxRunVlans}

Init ==
    /\ pc = "call"
    /\ call \in GraphManagerCalls
    /\ ret = NoValue
    /\ self = NoValue
    /\ frame = NoValue

\* __init__, lines 35-57: the fields, the devices and self.layers.
AssignDevicesToLayers ==
    /\ pc = "call"
    /\ call.fn = "GraphManager"
    /\ self' = new_graph_manager(call)
    /\ pc' = "create_optimal_vlan_network"
    /\ UNCHANGED <<call, ret, frame>>

\* create_optimized_topology, lines 106-116.
CreateOptimalVlanNetwork ==
    /\ pc = "create_optimal_vlan_network"
    /\ LET switches == access_switch_names(self.layers)
           computers == access_computer_names(self.layers)
           packed == bin_packing_vlans(Len(switches), Len(computers), self.vlan_count)
       IN  \E firsts \in first_choices(IF packed.raised = "None" /\ self.mode = 1
                                       THEN packed.value ELSE <<>>) :
             LET made == create_optimal_vlan_network(Len(switches), Len(computers),
                                                     self.mode, self.vlan_count, firsts)
             IN  IF made.raised # "None"
                 THEN /\ ret' = made
                      /\ pc' = "raised"
                      /\ UNCHANGED frame
                 ELSE /\ frame' = [access_graph |-> compose(EmptyGraph, made.value[1]),
                                   vlans |-> made.value[2]]
                      /\ pc' = "configure_devices"
                      /\ UNCHANGED ret
    /\ UNCHANGED <<call, self>>

\* create_optimized_topology, line 120: configure_devices is called and its
\* return value unpacked into three names.  It returns two values, so the
\* unpacking raises ValueError and lines 121-148 never run.
ConfigureDevices ==
    /\ pc = "configure_devices"
    /\ LET configured == configure_devices(frame.vlans, self.ip_base)
       IN  IF configured.raised # "None"
           THEN /\ ret' = configured
                /\ pc' = "raised"
                /\ UNCHANGED frame
           ELSE IF Len(configured.value) # 3
           THEN /\ ret' = Raised("ValueError")
                /\ pc' = "raised"
                /\ UNCHANGED frame
           ELSE /\ frame' = [access_graph |-> frame.access_graph,
                             vlans |-> frame.vlans,
                             device_configurations |-> configured.value[1],
                             main_access_switches |-> configured.value[2],
                             next_ip |-> configured.value[3]]
                /\ pc' = "build_topology"
                /\ UNCHANGED ret
    /\ UNCHANGED <<call, self>>

Next ==
    \/ AssignDevicesToLayers
    \/ CreateOptimalVlanNetwork
    \/ ConfigureDevices

Spec == Init /\ [][Next]_vars

(***************************************************************************)
(* Properties of access_configuration.py                                   *)
(***************************************************************************)
VlsmDone == pc = "done" /\ call.fn = "calculate_vlsm"
VlsmReturned == VlsmDone /\ ret.raised = "None"
AllPositive(t) == \A i \in DOMAIN t : t[i] >= 1

\* The base address of a returned subnet, read back from its "range" entry.
BaseOf(subnet) == ip_to_int(subnet.range[1])
BlockSize(subnet) == 2 ^ (MAX_BITS_IN_IP - subnet.subnet_mask)
TopOfSpace == <<Half, 0>>

IsPowerOfTwo(n) == \E k \in 0..30 : n = 2 ^ k

\* C2: for every base address and every list of positive host counts the
\* subnets calculate_vlsm returns are pairwise disjoint, listed in strictly
\* ascending base-address order with non-increasing block sizes, each block
\* starting exactly where the previous one ends.
C2_DisjointAscending ==
    (VlsmReturned /\ AllPositive(call.total_hosts)) =>
        LET subnets == ret.value IN
        /\ \A k \in 1..(Len(subnets) - 1) :
            /\ IntLess(BaseOf(subnets[k]), BaseOf(subnets[k + 1]))
            /\ BaseOf(subnets[k + 1]) = IntAdd(BaseOf(subnets[k]), subnets[k].size)
            /\ subnets[k].size >= subnets[k + 1].size
        /\ \A j, k \in DOMAIN subnets :
            j < k => IntLeq(IntAdd(BaseOf(subnets[j]), subnets[j].size),
                            BaseOf(subnets[k]))

\* C4: calculate_vlsm returns one subnet per host count, and the subnet at
\* position i has a block of at least h_i + 3 addresses, whatever the order
\* of the caller's list.
C4_PositionKeepsCapacity ==
    (VlsmReturned /\ AllPositive(call.total_hosts)) =>
        /\ Len(ret.value) = Len(call.total_hosts)
        /\ \A i \in DOMAIN call.total_hosts :
            BlockSize(ret.value[i]) >=
                call.total_hosts[i] + MIN_BITS_FOR_NETWORK_BROADCAST_AND_GATEWAY

\* C9: for every host count h >= 0, calculate_subnet_size(h) is the power
\* of two with size >= h + 3 > size / 2 (8 for h = 5, 16 for h = 13), and
\* the prefix length calculate_vlsm stores for a block is 32 - log2(size).
C9_SmallestPowerOfTwo ==
    /\ (pc = "done" /\ call.fn = "calculate_subnet_size" /\ call.hosts >= 0) =>
        /\ ret.raised = "None"
        /\ IsPowerOfTwo(ret.value)
        /\ ret.value >= call.hosts + MIN_BITS_FOR_NETWORK_BROADCAST_AND_GATEWAY
        /\ ret.value \div 2 < call.hosts + MIN_BITS_FOR_NETWORK_BROADCAST_AND_GATEWAY
        /\ (call.hosts = 5 => ret.value = 8)
        /\ (call.hosts = 13 => ret.value = 16)
    /\ (VlsmReturned /\ \A i \in DOMAIN call.total_hosts : call.total_hosts[i] >= 0) =>
        \A k \in DOMAIN ret.value :
            /\ IsPowerOfTwo(ret.value[k].size)
            /\ 2 ^ (MAX_BITS_IN_IP - ret.value[k].subnet_mask) = ret.value[k].size
            /\ ret.value[k].range[2] = ret.value[k].subnet_mask
            /\ \E i \in DOMAIN call.total_hosts :
                /\ ret.value[k].size >= call.total_hosts[i]
                        + MIN_BITS_FOR_NETWORK_BROADCAST_AND_GATEWAY
                /\ ret.value[k].size \div 2 < call.total_hosts[i]
                        + MIN_BITS_FOR_NETWORK_BROADCAST_AND_GATEWAY

C9_Witness ==
    \/ /\ pc = "done" /\ call.fn = "calculate_subnet_size"
       /\ call.hosts = 13 /\ ret.value = 16
    \/ /\ VlsmReturned /\ call.total_hosts = <<5, 1>>
       /\ ret.value[1].subnet_mask = 29 /\ ret.value[2].subnet_mask = 30

\* The cursor after the whole walk: base + the sum of the block sizes.
EndOfWalk(ip_base, total_hosts) ==
    IntAdd(ip_to_int(ip_base), SumSeq(subnet_sizes_of(total_hosts)))

\* C10: calculate_vlsm fails, returning no subnets, whenever a host count
\* is 0 or negative or the walk goes past 255.255.255.255; it never returns
\* a wrapped subnet.
C10_AddressSpaceExhausted ==
    VlsmDone =>
        LET t == call.total_hosts
            nonPositive == \E i \in DOMAIN t : t[i] <= 0
            overflow == /\ ~nonPositive
                        /\ IntLess(TopOfSpace, EndOfWalk(call.ip_base, t))
        IN  (nonPositive \/ overflow) => ret.raised # "None"

(***************************************************************************)
(* Properties of access_layer.py                                           *)
(***************************************************************************)
BinPackingDone == pc = "done" /\ call.fn = "bin_packing_vlans"
AutoCount == call.vlan_count = 0 - 1 /\ call.switch_count + call.computer_count >= 1

\* The devices bin_packing_vlans is asked to group.
AllDeviceNames(sc, cc) ==
    {Name("Switch", i) : i \in 1..sc} \cup {Name("Computer", i) : i \in 1..cc}

\* C5: with vlan_count = -1 and n = switches + computers >= 1,
\* bin_packing_vlans returns ceil(n / 7) buckets, each non-empty, every
\* device name in exactly one place of exactly one bucket, n members in
\* total (3 buckets and 19 members for 8 switches and 11 computers).
C5_AutoBuckets ==
    (BinPackingDone /\ AutoCount) =>
        LET n == call.switch_count + call.computer_count
            vlans == ret.value
        IN  /\ ret.raised = "None"
            /\ 7 * (Len(vlans) - 1) < n /\ n <= 7 * Len(vlans)
            /\ \A k \in DOMAIN vlans : vlans[k] # <<>>
            /\ \A d \in AllDeviceNames(call.switch_count, call.computer_count) :
                 Cardinality({<<k, j>> \in (DOMAIN vlans) \X (1..n) :
                                j \in DOMAIN vlans[k] /\ vlans[k][j] = d}) = 1
            /\ SumSeq([k \in DOMAIN vlans |-> Len(vlans[k])]) = n
            /\ (call.switch_count = 8 /\ call.computer_count = 11) =>
                    Len(vlans) = 3 /\ n = 19

C5_Witness ==
    /\ BinPackingDone /\ AutoCount
    /\ call.switch_count = 8 /\ call.computer_count = 11
    /\ ret.raised = "None"
    /\ [k \in DOMAIN ret.value |-> Len(ret.value[k])] = <<7, 6, 6>>

PrimsDone == pc = "done" /\ call.fn = "prims_minimum_spanning_tree"

\* The nodes of G that a walk from the nodes in `seen` reaches.
RECURSIVE ReachedFrom(_, _)
ReachedFrom(G, seen) ==
    LET more == {n \in Range(G.nodes) : \E m \in seen : {m, n} \in G.edges}
    IN  IF more \subseteq seen THEN seen ELSE ReachedFrom(G, seen \cup more)

Connected(G) ==
    G.nodes # <<>> /\ ReachedFrom(G, {G.nodes[1]}) = Range(G.nodes)

RECURSIVE TotalWeight(_, _)
TotalWeight(es, weight) ==
    IF es = {} THEN 0
    ELSE LET e == CHOOSE e \in es : TRUE
         IN  weight[e] + TotalWeight(es \ {e}, weight)

\* The edge sets of the spanning trees of G.
SpanningTrees(G) ==
    {es \in SUBSET G.edges :
        /\ Cardinality(es) = Len(G.nodes) - 1
        /\ Connected([G EXCEPT !.edges = es])}

IsMinimumSpanningTree(T, G) ==
    /\ Range(T.nodes) = Range(G.nodes)
    /\ Len(T.nodes) = Len(G.nodes)
    /\ Cardinality(T.edges) = Len(G.nodes) - 1
    /\ T.edges \subseteq G.edges
    /\ \A e \in T.edges : e \in DOMAIN T.weight /\ T.weight[e] = G.weight[e]
    /\ T.edges \in SpanningTrees(G)
    /\ \A es \in SpanningTrees(G) :
         TotalWeight(T.edges, G.weight) <= TotalWeight(es, G.weight)

\* C6: for every connected weighted undirected graph,
\* prims_minimum_spanning_tree returns a tree with every node of the graph,
\* |nodes| - 1 edges, all of them edges of the input with their input
\* weights, of the least total weight among the spanning trees (6 on the
\* 4-node example); for the empty graph it returns the empty tree.
C6_MinimumSpanningTree ==
    PrimsDone =>
        /\ ret.raised = "None"
        /\ Connected(call.graph) => IsMinimumSpanningTree(ret.value, call.graph)
        /\ (Connected(call.graph) /\ Len(call.graph.nodes) = 4
                /\ \A e \in NodePairs(4) :
                     call.graph.weight[{Name("Switch", i) : i \in e}] = ExampleWeights[e])
             => TotalWeight(ret.value.edges, ret.value.weight) = 6
        /\ call.graph.nodes = <<>> => ret.value.nodes = <<>> /\ ret.value.edges = {}

(***************************************************************************)
(* Properties of assign_devices_to_layers and build_topology               *)
(***************************************************************************)
AssignDone == pc = "done" /\ call.fn = "assign_devices_to_layers"

\* The routing pool in the order routers before multilayer switches.
PoolNames(r, m) ==
    [i \in 1..(r + m) |->
        IF i <= r THEN Name("Router", i) ELSE Name("MultiLayerSwitch", i - r)]

AccessNames(sc, cc) ==
    [i \in 1..(sc + cc) |->
        IF i <= sc THEN Name("Switch", i) ELSE Name("Computer", i - sc)]

BuildDone == pc = "done" /\ call.fn = "build_topology"

\* C8: build_topology with an empty Core list tags every Distribution
\* device Core, leaves no node tagged Distribution, and every edge at an
\* Access node has a former Distribution device, now Core, at its other
\* end.
C8_CollapseRetags ==
    (BuildDone /\ call.core_devices = <<>>) =>
        LET G == ret.value IN
        /\ \A n \in Range(call.dist_devices) :
             n \in Range(G.nodes) /\ G.attr[n] = "Core"
        /\ \A n \in Range(G.nodes) : G.attr[n] # "Distribution"
        /\ \A e \in G.edges : \A a \in {e[1], e[2]} :
             G.attr[a] = "Access" =>
                \E d \in {e[1], e[2]} \ {a} :
                    d \in Range(call.dist_devices) /\ G.attr[d] = "Core"

C8_Witness ==
    /\ BuildDone /\ call.core_devices = <<>>
    /\ Len(call.dist_devices) >= 2 /\ call.access_switches # <<>>
    /\ \E e \in ret.value.edges :
         ret.value.attr[e[1]] = "Core" /\ ret.value.attr[e[2]] = "Access"

(***************************************************************************)
(* Properties of configure_top_layers                                      *)
(***************************************************************************)
TopLayersReturned ==
    pc = "done" /\ call.fn = "configure_top_layers" /\ ret.raised = "None"

\* The prefix length a dotted netmask of a block of up to 2^16 addresses
\* stands for.
PrefixOfMask(mask) ==
    CHOOSE p \in (BITS_IN_BYTE * 2)..MAX_BITS_IN_IP :
        netmask([network_address |-> <<0, 0>>, prefixlen |-> p]) = mask

\* The blocks of the Distribution-Core links in the returned
\* configurations: the network of each address configured on a link
\* interface (an "ip address" line that follows an "interface" line).
LinkBlocks(device_configurations) ==
    {ip_network(lines[i + 1].ip, PrefixOfMask(lines[i + 1].mask)) :
        <<lines, i>> \in
            {<<device_configurations[d].config_lines, j>> :
                <<d, j>> \in
                    {x \in (DOMAIN device_configurations) \X (1..40) :
                        /\ x[2] < Len(device_configurations[x[1]].config_lines)
                        /\ device_configurations[x[1]].config_lines[x[2]].cmd
                                = "interface"}}}

\* The subnets calculate_vlsm returned for the VLAN buckets of the run.
RunVlsmSubnets ==
    calculate_vlsm(call.ip_base, [k \in DOMAIN call.vlans |-> Len(call.vlans[k])])

\* Two address ranges [a, a + m) and [b, b + n) that share an address.
RangesMeet(a, m, b, n) == IntLess(a, IntAdd(b, n)) /\ IntLess(b, IntAdd(a, m))

LinkMeetsVlsm ==
    \E net \in LinkBlocks(ret.value) :
        \E k \in DOMAIN RunVlsmSubnets.value :
            RangesMeet(net.network_address, NetSize(net.prefixlen),
                       BaseOf(RunVlsmSubnets.value[k]), RunVlsmSubnets.value[k].size)

ValidRun ==
    /\ call.fn = "GraphManager"
    /\ call.num_routers >= 1 /\ call.num_mls >= 1
    /\ call.num_switches >= 1 /\ call.num_computers >= 1
    /\ call.mode \in {0, 1}
    /\ call.vlan_count = 0 - 1 \/ call.vlan_count >= 1

\* C1: a planning run on valid inputs ends completed with its four
\* outputs and never in an error.
C1_RunCompletes == ValidRun => pc # "raised"

\* A mode other than 0 and 1, or a device count of 0 or less.
InvalidRun ==
    /\ call.fn = "GraphManager"
    /\ \/ call.mode \notin {0, 1}
       \/ call.num_routers <= 0 \/ call.num_mls <= 0
       \/ call.num_switches <= 0 \/ call.num_computers <= 0

\* C11: a planning run with a mode outside {0, 1} or a non-positive device
\* count is rejected for its input, whatever the other inputs are: it ends
\* in an error before any access graph or configuration is produced, and
\* never goes on to configure devices.
C11_InvalidInputRejected ==
    (InvalidRun /\ pc \notin {"call", "create_optimal_vlan_network"}) =>
        pc = "raised" /\ frame = NoValue

\* The steps of a run whose outputs the run holds.
LayerAssignerDone == self # NoValue
DeviceGrouperDone == frame # NoValue
TopologySynthesizerDone == frame # NoValue
AddressPlannerDone ==
    \/ pc = "raised" /\ frame # NoValue
    \/ pc \in {"build_topology", "configure_top_layers", "done"}
HierarchyBuilderDone == pc \in {"configure_top_layers", "done"}
LinkAddressAllocatorDone == pc = "done"

\* The devices in the buckets the run holds.
GroupedDevices == UNION {Range(frame.vlans[k]) : k \in DOMAIN frame.vlans}

MaxOctetSample == 2
MaxHalfSample == 2

\* Octets at both ends of 0..255 and around the middle.
OctetSamples ==
    (0..MaxOctetSample) \cup {BYTE_MASK - k : k \in 0..MaxOctetSample}
    \cup {(BYTE_MASK \div 2) + k : k \in 0..1}

\* 16-bit halves at both ends of 0..65535 and around a byte boundary.
HalfSamples ==
    (0..MaxHalfSample) \cup {(Half - 1) - k : k \in 0..MaxHalfSample}
    \cup {BYTE_MASK + k : k \in 0..MaxHalfSample}

IpToIntCalls ==
    {[fn |-> "ip_to_int", ip |-> <<a, b, c, d>>] :
        a \in OctetSamples, b \in OctetSamples, c \in OctetSamples, d \in OctetSamples}

IntToIpCalls ==
    {[fn |-> "int_to_ip", ip_int |-> <<hi, lo>>] : hi \in HalfSamples, lo \in HalfSamples}

InitIpConversion ==
    /\ pc = "call"
    /\ call \in IpToIntCalls \cup IntToIpCalls
    /\ ret = NoValue
    /\ self = NoValue
    /\ frame = NoValue

CallIpToInt ==
    /\ pc = "call"
    /\ call.fn = "ip_to_int"
    /\ ret' = Returned(ip_to_int(call.ip))
    /\ pc' = "converted"
    /\ UNCHANGED <<call, self, frame>>

\* int_to_ip on the int ip_to_int returned.
IntToIpBack ==
    /\ pc = "converted"
    /\ call.fn = "ip_to_int"
    /\ ret' = Returned(int_to_ip(ret.value))
    /\ pc' = "done"
    /\ UNCHANGED <<call, self, frame>>

CallIntToIp ==
    /\ pc = "call"
    /\ call.fn = "int_to_ip"
    /\ ret' = Returned(int_to_ip(call.ip_int))
    /\ pc' = "converted"
    /\ UNCHANGED <<call, self, frame>>

\* ip_to_int on the string int_to_ip returned.
IpToIntBack ==
    /\ pc = "converted"
    /\ call.fn = "int_to_ip"
    /\ ret' = Returned(ip_to_int(ret.value))
    /\ pc' = "done"
    /\ UNCHANGED <<call, self, frame>>

NextIpConversion ==
    \/ CallIpToInt
    \/ IntToIpBack
    \/ CallIntToIp
    \/ IpToIntBack

SpecIpConversion == InitIpConversion /\ [][NextIpConversion]_vars

\* C13: int_to_ip(ip_to_int(x)) = x for every dotted quad x of four octets
\* in 0..255, and ip_to_int(int_to_ip(n)) = n for every n in 0..2^32 - 1.
C13_RoundTrip ==
    /\ (pc = "done" /\ call.fn = "ip_to_int") => ret.value = call.ip
    /\ (pc = "done" /\ call.fn = "int_to_ip") => ret.value = call.ip_int

C13_Witness ==
    /\ pc = "done" /\ call.fn = "ip_to_int"
    /\ call.ip = <<BYTE_MASK, 1, 0, BYTE_MASK - 1>>
    /\ ret.value = call.ip

(***************************************************************************)
(* Properties of the link and route entries of configure_top_layers        *)
(***************************************************************************)
TopLayersDone == pc = "done" /\ call.fn = "configure_top_layers"

\* The hierarchy graph is the DiGraph build_topology returned.
BuiltGraph == call.fn = "configure_top_layers" /\ call.G.directed

\* The (core, dist) pairs the graph joins, in the direction
\* create_core_layer lists them.
CorePairs ==
    {p \in Range(layer_devices(call.G, "Core"))
            \X Range(layer_devices(call.G, "Distribution")) :
        has_edge(call.G, p[1], p[2])}

\* The config lines returned for device dev.
ConfigLinesOf(dev) ==
    LET i == CHOOSE i \in DOMAIN ret.value : ret.value[i].device_name = dev
    IN  ret.value[i].config_lines

HasConfig(dev) == \E i \in DOMAIN ret.value : ret.value[i].device_name = dev

\* The <<address, mask>> entries of dev's interfaces towards peer.
LinkAddresses(dev, peer) ==
    {<<ConfigLinesOf(dev)[i + 1].ip, ConfigLinesOf(dev)[i + 1].mask>> :
        i \in {j \in 1..(Len(ConfigLinesOf(dev)) - 1) :
                /\ ConfigLinesOf(dev)[j].cmd = "interface"
                /\ ConfigLinesOf(dev)[j].peer = peer
                /\ ConfigLinesOf(dev)[j + 1].cmd = "ip address"}}

\* The link subnet of an <<address, mask>> entry.
LinkNetOf(entry) == ip_network(entry[1], PrefixOfMask(entry[2]))

\* The one entry of dev's interface towards peer.
TheLink(dev, peer) == CHOOSE e \in LinkAddresses(dev, peer) : TRUE

\* The place of a device in the order of its layer.
PlaceIn(layer, dev) ==
    CHOOSE i \in DOMAIN layer_devices(call.G, layer) :
        layer_devices(call.G, layer)[i] = dev

\* Pair p is processed before pair q: Distribution-major, Core-minor.
PairBefore(p, q) ==
    \/ PlaceIn("Distribution", p[2]) < PlaceIn("Distribution", q[2])
    \/ /\ p[2] = q[2]
       /\ PlaceIn("Core", p[1]) < PlaceIn("Core", q[1])

LinkPerPair ==
    /\ ret.raised = "None"
    /\ \A p \in CorePairs :
         /\ HasConfig(p[1]) /\ HasConfig(p[2])
         /\ Cardinality(LinkAddresses(p[2], p[1])) = 1
         /\ Cardinality(LinkAddresses(p[1], p[2])) = 1
         /\ LET dist == TheLink(p[2], p[1])
                core == TheLink(p[1], p[2])
                net == LinkNetOf(dist)
            IN  /\ LinkNetOf(core) = net
                /\ ip_to_int(dist[1]) = first_host(net)
                /\ ip_to_int(core[1]) = host_at(net, 1)
    /\ \A p, q \in CorePairs :
         PairBefore(p, q) =>
            IntLess(LinkNetOf(TheLink(p[2], p[1])).network_address,
                    LinkNetOf(TheLink(q[2], q[1])).network_address)

\* C14: on the graph build_topology made with a non-empty Core,
\* configure_top_layers allocates one link subnet for every Core-
\* Distribution pair the graph joins, distinct for different pairs, gives
\* the Distribution end the first usable address and the Core end the
\* second, writes an interface entry with that address into the config
\* lines of both ends, and takes the pairs Distribution-major, Core-minor.
C14_LinkPerPair ==
    (TopLayersDone /\ BuiltGraph /\ CorePairs # {}
        /\ call.main_access_configs # <<>>) => LinkPerPair

\* The VLAN subnets of the call: the network of each main access switch's
\* gateway under its prefix length.
VlanSubnets ==
    {ip_network(call.main_access_configs[i].Gateway,
                call.main_access_configs[i].Subnet_Mask) :
        i \in DOMAIN call.main_access_configs}

\* The static routes to subnet net in the config lines of dev.
RoutesTo(dev, net) ==
    {i \in DOMAIN ConfigLinesOf(dev) :
        /\ ConfigLinesOf(dev)[i].cmd = "ip route"
        /\ ConfigLinesOf(dev)[i].ip = int_to_ip(net.network_address)
        /\ ConfigLinesOf(dev)[i].mask = netmask(net)}

\* Address via is the link address of a Distribution device joined to
\* core_dev.
ReachableNextHop(core_dev, via) ==
    \E d \in Range(layer_devices(call.G, "Distribution")) :
        /\ has_edge(call.G, core_dev, d) \/ has_edge(call.G, d, core_dev)
        /\ HasConfig(d)
        /\ \E e \in LinkAddresses(d, core_dev) : e[1] = via

RoutePerVlan ==
    /\ ret.raised = "None"
    /\ \A c \in Range(layer_devices(call.G, "Core")) :
         /\ HasConfig(c)
         /\ \A net \in VlanSubnets :
              /\ Cardinality(RoutesTo(c, net)) = 1
              /\ \A i \in RoutesTo(c, net) :
                   ReachableNextHop(c, ConfigLinesOf(c)[i].via)

\* C15: in the output of configure_top_layers on a graph build_topology
\* made, the config lines of every Core device hold exactly one static
\* route for each VLAN subnet, and its next hop is the link address of a
\* Distribution device joined to that Core device.
C15_RoutePerVlan ==
    (TopLayersDone /\ BuiltGraph /\ VlanSubnets # {}
        /\ layer_devices(call.G, "Core") # <<>>) => RoutePerVlan

OptimalDone == pc = "done" /\ call.fn = "create_optimal_vlan_network"

\* The buckets bin_packing_vlans makes for the call.
BucketsOfCall ==
    bin_packing_vlans(call.switch_count, call.computer_count, call.vlan_count)

\* Graph G holds each device of each bucket with its bucket's tag, holds no
\* other tag, and has no edge between two tags.
TaggedByBucket(G, vlans) ==
    /\ \A k \in DOMAIN vlans : \A d \in Range(vlans[k]) :
          /\ d \in Range(G.nodes)
          /\ d \in DOMAIN G.attr
          /\ G.attr[d] = (k - 1) + 1
    /\ \A n \in DOMAIN G.attr :
          \E k \in DOMAIN vlans : n \in Range(vlans[k]) /\ G.attr[n] = (k - 1) + 1
    /\ \A e \in G.edges : \A u \in e, v \in e :
          /\ u \in DOMAIN G.attr
          /\ v \in DOMAIN G.attr
          /\ G.attr[u] = G.attr[v]

\* C16: for both modes and every call of create_optimal_vlan_network whose
\* bucketing returns, the access graph holds every device of bucket k
\* (0-based) with vlan = k + 1, no node has another tag, and no edge joins
\* two nodes of different tags.
C16_TaggedByBucket ==
    (OptimalDone /\ call.mode \in {0, 1} /\ BucketsOfCall.raised = "None")
        => /\ ret.raised = "None"
           /\ TaggedByBucket(ret.value[1], BucketsOfCall.value)

ConfigureDevicesDone == pc = "done" /\ call.fn = "configure_devices"

\* mains holds, bucket by bucket, the first switch of each bucket.
FirstSwitchPerBucket(mains, vlans) ==
    /\ Len(mains) = Len(vlans)
    /\ \A k \in DOMAIN vlans :
          /\ k \in DOMAIN mains
          /\ mains[k][1] = DEVICE_TYPE_SWITCH
          /\ vlan_switches_of(vlans[k]) # <<>>
          /\ mains[k] = vlan_switches_of(vlans[k])[1]

\* C17: the main access switches configure_devices returns are one per
\* bucket, each of kind Switch, each the first switch of its bucket -
\* also when there are fewer switches than buckets.
C17_MainSwitchPerBucket ==
    (ConfigureDevicesDone /\ ret.raised = "None")
        => FirstSwitchPerBucket(ret.value[2], call.vlans)

FaultTolerantDone == pc = "done" /\ call.fn = "create_fault_tolerant_network"

\* The switches computer i (0-based) of the call must be joined to.
RedundantSwitches(switches, i) ==
    LET n == Len(switches)
    IN  IF n = 0 THEN {}
        ELSE IF n = 1 THEN {switches[1]}
        ELSE {switches[(i % n) + 1], switches[((i + 1) % n) + 1]}

\* C18: the graph create_fault_tolerant_network returns joins every two
\* distinct switches; with n >= 2 switches computer i (0-based) is adjacent
\* to exactly the two distinct switches i mod n and (i + 1) mod n, with one
\* switch to exactly that switch, with none it is an isolated node; no
\* computer is adjacent to a computer.
C18_FaultTolerantShape ==
    FaultTolerantDone =>
        LET G == ret.value
            switches == call.switches
            computers == call.computers
            n == Len(switches)
        IN  /\ \A i \in 1..n, j \in 1..n :
                  i # j => {switches[i], switches[j]} \in G.edges
            /\ \A i \in 0..(Len(computers) - 1) :
                  /\ computers[i + 1] \in Range(G.nodes)
                  /\ neighbors(G, computers[i + 1]) = RedundantSwitches(switches, i)
                  /\ n >= 2 => Cardinality(neighbors(G, computers[i + 1])) = 2
            /\ \A e \in G.edges : \E u \in e : ~ContainsComputer(u)

\* A returned network where the round robin wraps: the last of four
\* computers on three switches is joined to the first and second switch.
C18_Witness ==
    /\ FaultTolerantDone
    /\ Len(call.switches) = 3
    /\ Len(call.computers) = 4
    /\ neighbors(ret.value, call.computers[4]) = {call.switches[1], call.switches[2]}

ScalableDone == pc = "done" /\ call.fn = "create_scalable_network"

\* The part of G on the switches: its switch nodes and switch-to-switch
\* edges.
SwitchPart(G) ==
    [G EXCEPT !.nodes = SelectSeq(G.nodes, ContainsSwitch),
              !.edges = {e \in G.edges : \A u \in e : ContainsSwitch(u)}]

\* G is a tree on the n switches with computer i (0-based) hanging as a
\* leaf on switch i mod n.
SpanningTreeWithLeaves(G, switches, computers) ==
    LET n == Len(switches)
    IN  /\ Range(SwitchPart(G).nodes) = Range(switches)
        /\ Connected(SwitchPart(G))
        /\ Cardinality(SwitchPart(G).edges) = n - 1
        /\ \A i \in 0..(Len(computers) - 1) :
              /\ computers[i + 1] \in Range(G.nodes)
              /\ neighbors(G, computers[i + 1]) = {switches[(i % n) + 1]}
        /\ Range(G.nodes) = Range(switches) \cup Range(computers)
        /\ Connected(G)
        /\ Cardinality(G.edges) = Len(G.nodes) - 1

\* C19: on n >= 1 switches create_scalable_network returns a graph whose
\* switches form a spanning tree of the switch set (all present, connected,
\* n - 1 switch-to-switch edges), computer i (0-based) has the single
\* neighbour switch i mod n, and the whole graph is a tree.
C19_ScalableTree ==
    (ScalableDone /\ Len(call.switches) >= 1)
        => SpanningTreeWithLeaves(ret.value, call.switches, call.computers)

\* Nodes u and v are joined in G, in either direction.
Joined(G, u, v) == has_edge(G, u, v) \/ has_edge(G, v, u)

\* The pairs of layers build_topology joins.
LayersJoined(a, b) ==
    {a, b} \in {{"Core", "Distribution"}, {"Distribution"},
                {"Distribution", "Access"}}

\* C20: called with a non-empty Core list, build_topology returns a graph
\* that tags every node with the layer of the list it came in, joins every
\* Core device with every Distribution device, every two distinct
\* Distribution devices, and every Distribution device with every main
\* Access switch, and has no other edge.
C20_ThreeTierEdges ==
    (BuildDone /\ call.core_devices # <<>>) =>
        LET G == ret.value
            listed == [n \in Range(call.core_devices) |-> "Core"]
                      @@ [n \in Range(call.dist_devices) |-> "Distribution"]
                      @@ [n \in Range(call.access_switches) |-> "Access"]
        IN  /\ Range(G.nodes) = DOMAIN listed
            /\ \A n \in DOMAIN listed : n \in DOMAIN G.attr /\ G.attr[n] = listed[n]
            /\ \A u \in DOMAIN listed, v \in DOMAIN listed :
                  Joined(G, u, v) <=> (u # v /\ LayersJoined(listed[u], listed[v]))
            /\ \A e \in G.edges : e[1] \in DOMAIN listed /\ e[2] \in DOMAIN listed

\* A returned three-tier graph with two Core devices, two Distribution
\* devices joined to each other, and an Access switch.
C20_Witness ==
    /\ BuildDone
    /\ Len(call.core_devices) >= 2
    /\ Len(call.dist_devices) >= 2
    /\ call.access_switches # <<>>
    /\ Joined(ret.value, call.dist_devices[1], call.dist_devices[2])
    /\ Joined(ret.value, call.core_devices[2], call.dist_devices[1])
    /\ ~Joined(ret.value, call.core_devices[1], call.access_switches[1])

\* The 0-based position of a device in the list 'all switches, then all
\* computers' of sc switches.
PositionOf(name, sc) ==
    IF name[1] = "Switch" THEN name[2] - 1 ELSE sc + (name[2] - 1)

\* The bucket count the call asks for: the explicit one, or the one of the
\* /7 rule.
AskedCount ==
    IF call.vlan_count = 0 - 1
    THEN CeilDiv(call.switch_count + call.computer_count, DevicesPerVlan)
    ELSE call.vlan_count

\* C21: for an explicit vlan_count >= 1, and for the automatic count of one
\* or more devices, bin_packing_vlans returns exactly that many buckets,
\* the device at 0-based position i of 'all switches, then all computers'
\* is in bucket i mod count, and each bucket keeps the list order.
C21_RoundRobin ==
    (BinPackingDone /\ (call.vlan_count >= 1 \/ AutoCount)) =>
        LET sc == call.switch_count
            vlans == ret.value
        IN  /\ ret.raised = "None"
            /\ Len(vlans) = AskedCount
            /\ \A d \in AllDeviceNames(sc, call.computer_count) :
                  d \in Range(vlans[(PositionOf(d, sc) % AskedCount) + 1])
            /\ \A k \in DOMAIN vlans : \A j \in DOMAIN vlans[k] :
                  /\ vlans[k][j] \in AllDeviceNames(sc, call.computer_count)
                  /\ PositionOf(vlans[k][j], sc) % AskedCount = k - 1
                  /\ \A h \in DOMAIN vlans[k] :
                        h < j => PositionOf(vlans[k][h], sc) < PositionOf(vlans[k][j], sc)

\* An explicit count larger than the device total (an empty bucket), and a
\* bucket that holds a switch followed by a computer.
C21_Witness ==
    /\ BinPackingDone
    /\ call.vlan_count = 4
    /\ call.switch_count = 1 /\ call.computer_count = 2
    /\ ret.raised = "None"
    /\ ret.value = <<<<Name("Switch", 1)>>, <<Name("Computer", 1)>>,
                     <<Name("Computer", 2)>>, <<>>>>

\* C22: prims_minimum_spanning_tree called on a graph that is not connected
\* ends in an error; it does not return a tree that leaves out the nodes
\* the start node cannot reach.
C22_DisconnectedGraphFails ==
    (PrimsDone /\ call.graph.nodes # <<>> /\ ~Connected(call.graph))
        => ret.raised # "None"

TopGraphDone == pc = "done" /\ call.fn = "top_graph"

\* Graph G tags the devices of the layers as assign_devices_to_layers
\* placed them, and with a Core layer its Distribution devices are the ones
\* joined to the main access switches.
AgreesWithLayers(G, layers, main_access_switches) ==
    /\ \A d \in Range(names_of(layers.Core)) :
          d \in DOMAIN G.attr /\ G.attr[d] = "Core"
    /\ layers.Core # <<>> =>
          \A d \in Range(names_of(layers.Distribution)) :
              /\ d \in DOMAIN G.attr
              /\ G.attr[d] = "Distribution"
              /\ \A a \in Range(main_access_switches) : Joined(G, d, a)

\* C23: the hierarchy graph create_optimized_topology builds tags every
\* device of the Core layer as Core and, when there is a Core layer, every
\* device of the Distribution layer as Distribution, joined to the main
\* access switches.
C23_HierarchyAgreesWithLayers ==
    TopGraphDone =>
        AgreesWithLayers(ret.value, call.layers, call.main_access_switches)

\* The VLSM subnets of the call's buckets, in the order calculate_vlsm
\* returns them.
SubnetsOfCall ==
    calculate_vlsm(call.ip_base, [k \in DOMAIN call.vlans |-> Len(call.vlans[k])]).value

\* Address a is a usable host address of the subnet for a member device:
\* above the gateway, at or below the recorded last address, inside the
\* block and neither its network nor its broadcast address.
UsableIn(a, subnet) ==
    /\ IntLess(ip_to_int(subnet.first_ip), a)
    /\ IntLeq(a, ip_to_int(subnet.last_ip))
    /\ IntLess(BaseOf(subnet), a)
    /\ IntLess(a, IntAdd(BaseOf(subnet), subnet.size - 1))

DeviceAddressesUsable(device_configurations, subnets) ==
    /\ \A i \in DOMAIN device_configurations :
          LET c == device_configurations[i]
          IN  /\ c.vlan_id \in DOMAIN subnets
              /\ UsableIn(ip_to_int(c.ip_address), subnets[c.vlan_id])
    /\ \A i \in DOMAIN device_configurations, j \in DOMAIN device_configurations :
          i # j => device_configurations[i].ip_address
                     # device_configurations[j].ip_address

\* C24: every address configure_devices assigns to a member of a VLAN lies
\* in the VLAN's subnet, above the gateway and at or below the subnet's
\* recorded last usable address, is not the network or the broadcast
\* address, and no two devices share an address - also for a bucket of 5
\* members, whose count plus 3 is a power of two.
C24_DeviceAddressesUsable ==
    (ConfigureDevicesDone /\ ret.raised = "None")
        => DeviceAddressesUsable(ret.value[1], SubnetsOfCall)

\* Some returned device has the lines 'interface vlan <vlan_id>' and, next,
\* 'ip address <gateway> ...'.
HasSvi(vlan_id, gateway) ==
    \E d \in DOMAIN ret.value :
        LET lines == ret.value[d].config_lines
        IN  \E j \in 1..(Len(lines) - 1) :
                /\ lines[j].cmd = "interface vlan"
                /\ lines[j].vlan = vlan_id
                /\ lines[j + 1].cmd = "ip address"
                /\ lines[j + 1].ip = gateway

\* The routing devices of the call's hierarchy graph.
RoutingDevices ==
    Range(layer_devices(call.G, "Core")) \cup Range(layer_devices(call.G, "Distribution"))

SviPerVlan ==
    /\ ret.raised = "None"
    /\ \A i \in DOMAIN call.main_access_configs :
          HasSvi(call.main_access_configs[i].VLAN_ID,
                 call.main_access_configs[i].Gateway)

\* C25: for a graph build_topology made with at least one routing device,
\* the collapsed two-tier graph included, and at least one VLAN, the output
\* of configure_top_layers has for each VLAN an SVI with the VLAN's gateway
\* address on at least one device.
C25_SviPerVlan ==
    (TopLayersDone /\ BuiltGraph /\ call.main_access_configs # <<>>
        /\ RoutingDevices # {}) => SviPerVlan

\* The member counts of the call's buckets, in bucket order.
BucketSizes == [k \in DOMAIN call.vlans |-> Len(call.vlans[k])]

\* C26: the buckets bin_packing_vlans hands to configure_devices have
\* non-increasing sizes that differ by at most 1, and configure_devices
\* pairs every VLAN with a subnet of the descending VLSM list whose block
\* holds at least the VLAN's members plus 3 addresses.
C26_PairingKeepsCapacity ==
    (ConfigureDevicesDone /\ ret.raised = "None") =>
        /\ \A k \in DOMAIN BucketSizes, h \in DOMAIN BucketSizes :
              k < h => /\ BucketSizes[k] >= BucketSizes[h]
                       /\ BucketSizes[k] - BucketSizes[h] <= 1
        /\ Len(SubnetsOfCall) = Len(call.vlans)
        /\ \A k \in DOMAIN call.vlans :
              SubnetsOfCall[k].size >= BucketSizes[k] + MIN_BITS_FOR_NETWORK_BROADCAST_AND_GATEWAY
        /\ \A i \in DOMAIN ret.value[1] :
              LET c == ret.value[1][i]
              IN  /\ c.vlan_id \in DOMAIN call.vlans
                  /\ c.name \in Range(call.vlans[c.vlan_id])
                  /\ c.gateway = SubnetsOfCall[c.vlan_id].first_ip
                  /\ 2 ^ (MAX_BITS_IN_IP - c.subnet_mask)
                        >= BucketSizes[c.vlan_id] + MIN_BITS_FOR_NETWORK_BROADCAST_AND_GATEWAY

\* Buckets of 2 and 1 members, whose blocks of 8 and 4 differ: the first
\* VLAN's devices carry the /29, the second's the /30.
C26_Witness ==
    /\ ConfigureDevicesDone
    /\ ret.raised = "None"
    /\ BucketSizes = <<2, 1>>
    /\ [k \in DOMAIN SubnetsOfCall |-> SubnetsOfCall[k].size] = <<8, 4>>
    /\ \E i \in DOMAIN ret.value[1] :
          ret.value[1][i].vlan_id = 2 /\ ret.value[1][i].subnet_mask = 30

====
